---------------------------- MODULE Spec2Model ----------------------------
(***************************************************************************)
(* frogbot: the link-embed pipeline of src/src/embeds.rs.                  *)
(*                                                                         *)
(* Text is a sequence of one-character strings.  A URL returned by         *)
(* get_urls_from_message is, as in the code (Vec<&str>), a slice of the    *)
(* message body: a pair <<first, last>> of positions in it.                *)
(***************************************************************************)
EXTENDS Integers, Sequences, FiniteSets, TLC

(***************************************************************************)
(* Bounds of the model.                                                    *)
(***************************************************************************)
\* A message body is at most MaxWords words, separated by single spaces.
MaxWords == 3

(***************************************************************************)
(* Option values: None, Some(x).                                           *)
(***************************************************************************)
None == << >>
Some(x) == << x >>
Unwrap(o) == o[1]

(***************************************************************************)
(* Characters.                                                             *)
(***************************************************************************)
LowerSeq == << "a","b","c","d","e","f","g","h","i","j","k","l","m",
               "n","o","p","q","r","s","t","u","v","w","x","y","z" >>
UpperSeq == << "A","B","C","D","E","F","G","H","I","J","K","L","M",
               "N","O","P","Q","R","S","T","U","V","W","X","Y","Z" >>
Lower == { LowerSeq[k] : k \in 1..26 }
Digit == { "0","1","2","3","4","5","6","7","8","9" }
Space == { " " }

\* char::to_lowercase on the characters of the model (ASCII).
to_lowercase_char(c) ==
    IF \E k \in 1..26 : UpperSeq[k] = c
    THEN LowerSeq[CHOOSE k \in 1..26 : UpperSeq[k] = c]
    ELSE c

\* str::to_lowercase
to_lowercase(s) == [k \in 1..Len(s) |-> to_lowercase_char(s[k])]

\* str::contains: pat occurs in s as a contiguous substring.
contains(s, pat) ==
    \E p \in 1..(Len(s) - Len(pat) + 1) : SubSeq(s, p, p + Len(pat) - 1) = pat

\* The text of a slice <<first, last>> of s.
Slice(s, r) == SubSeq(s, r[1], r[2])

(***************************************************************************)
(* The pattern RE of get_urls_from_message (the same pattern is compiled   *)
(* in main.rs).  It is                                                     *)
(*     https?://  HOST  (:\d+)?  [^\s]*                                    *)
(* with HOST one of three alternatives.  The two trailing groups accept    *)
(* any run of non-whitespace, the last one greedily, so a match that       *)
(* starts at p always extends to the next whitespace, and it exists        *)
(* exactly when the scheme is at p and some alternative of HOST matches a  *)
(* prefix of what follows the scheme.  The pattern carries no (?i) flag:   *)
(* its letter classes are lower case only.  The characters of the model    *)
(* are ASCII, so the class \x{00a1}-\x{ffff} contributes no character.     *)
(***************************************************************************)
SchemeHttp  == << "h","t","t","p",":","/","/" >>
SchemeHttps == << "h","t","t","p","s",":","/","/" >>

\* [a-z\d\x{00a1}-\x{ffff}]
HostChar == Lower \cup Digit
\* [a-z\x{00a1}-\x{ffff}]
TldChar == Lower

\* Position of the first whitespace of s at or after p; Len(s)+1 if none.
NextSpace(s, p) ==
    IF \E q \in p..Len(s) : s[q] \in Space
    THEN CHOOSE q \in p..Len(s) :
            /\ s[q] \in Space
            /\ \A q2 \in p..(q - 1) : s[q2] \notin Space
    ELSE Len(s) + 1

\* Length of the scheme (?:(?:https?)://) matched at p, 0 if it is not there.
SchemeLenAt(s, p) ==
    IF s[p] # "h" THEN 0
    ELSE IF p + 7 <= Len(s) /\ SubSeq(s, p, p + 7) = SchemeHttps THEN 8
    ELSE IF p + 6 <= Len(s) /\ SubSeq(s, p, p + 6) = SchemeHttp THEN 7
    ELSE 0

\* First alternative, \S+(?::\S*)?@ : an "@" preceded by at least one
\* non-whitespace character (r holds no whitespace).
HostUserinfo(r) == \E k \in 2..Len(r) : r[k] = "@"

\* Second alternative, \d{1,3}(?:\.\d{1,3}){3} : a prefix of r is four groups
\* of one to three digits separated by dots.
HostIPv4(r) ==
    \E a \in 1..3, b \in 1..3, c \in 1..3, d \in 1..3 :
        LET n == a + b + c + d + 3
            dots == { a + 1, a + b + 2, a + b + c + 3 }
        IN  /\ n <= Len(r)
            /\ \A k \in 1..n : IF k \in dots THEN r[k] = "." ELSE r[k] \in Digit

\* Third alternative,
\*   (?:(?:[a-z\d]+-?)*[a-z\d]+)(?:\.(?:[a-z\d]+-?)*[a-z\d]+)*(?:\.[a-z]{2,6})
\* a prefix of r is label(.label)* followed by a dot and at least two letters,
\* a label being host characters and single hyphens, starting and ending with
\* a host character.
HostDomain(r) ==
    \E k \in 1..(Len(r) - 3) :
        /\ r[1] \in HostChar
        /\ r[k] \in HostChar
        /\ \A j \in 1..k : r[j] \in HostChar \cup { "-", "." }
        /\ \A j \in 2..k : r[j] \in { "-", "." } => r[j - 1] \in HostChar
        /\ r[k + 1] = "."
        /\ r[k + 2] \in TldChar
        /\ r[k + 3] \in TldChar

\* RE matches at position p of s.
MatchAt(s, p) ==
    LET n == SchemeLenAt(s, p)
        r == SubSeq(s, p + n, NextSpace(s, p) - 1)
    IN  /\ n > 0
        /\ HostUserinfo(r) \/ HostIPv4(r) \/ HostDomain(r)

\* RE.find_iter(s) from position p on: the successive leftmost,
\* non-overlapping matches, as slices of s.
RECURSIVE find_iter(_, _)
find_iter(s, p) ==
    IF p > Len(s) THEN << >>
    ELSE IF MatchAt(s, p)
         THEN << << p, NextSpace(s, p) - 1 >> >> \o find_iter(s, NextSpace(s, p))
         ELSE find_iter(s, p + 1)

Localhost == << "l","o","c","a","l","h","o","s","t" >>
Loopback  == << "1","2","7",".","0",".","0",".","1" >>

\* The test of get_urls_from_message on one match: it points to localhost.
points_to_localhost(m) ==
    \/ contains(to_lowercase(m), Localhost)
    \/ contains(to_lowercase(m), Loopback)

\* get_urls_from_message: the matches of RE in the message, in order, without
\* those that point to localhost.
RECURSIVE keep_urls(_, _)
keep_urls(message, ms) ==
    IF ms = << >> THEN << >>
    ELSE IF points_to_localhost(Slice(message, Head(ms)))
         THEN keep_urls(message, Tail(ms))
         ELSE << Head(ms) >> \o keep_urls(message, Tail(ms))

\* RE.is_match(s)
is_match(s) == \E q \in 1..Len(s) : MatchAt(s, q)

get_urls_from_message(message) ==
    IF is_match(message)
    THEN keep_urls(message, find_iter(message, 1))
    ELSE << >>


(***************************************************************************)
(* parse_metadata.  A fetched page is modelled by what the two selectors   *)
(* of parse_metadata find in it: the text of the first <title> element     *)
(* (None if there is none) and the first <meta name="description">         *)
(* element (None if there is none), the element being given by its         *)
(* content attribute (None if the element has no such attribute).          *)
(***************************************************************************)
Titles == { None, Some("T") }
Descriptions == { None, Some(None), Some(Some("D")) }
Pages == [ title : Titles, desc : Descriptions ]

\* Embed::new
Embed(title, description) == [ title |-> title, description |-> description ]

\* How a call ends: it returns a value, or it panics.
Returned(v) == [ panicked |-> FALSE, value |-> v ]
Panicked == [ panicked |-> TRUE, value |-> None ]

\* parse_metadata(page): returns None or Some(Embed), or panics when the
\* description element has no content attribute (attr("content").unwrap()).
parse_metadata(page) ==
    IF page.title = None /\ page.desc = None THEN Returned(None)
    ELSE LET meta_title == IF page.title # None THEN Unwrap(page.title) ELSE ""
         IN  IF page.desc # None
             THEN IF Unwrap(page.desc) = None
                  THEN Panicked
                  ELSE Returned(Some(Embed(meta_title, Unwrap(Unwrap(page.desc)))))
             ELSE Returned(Some(Embed(meta_title, "")))

(***************************************************************************)
(* Message events and rooms.                                               *)
(***************************************************************************)
BotUser == "@frogbot:example.org"
Users == { BotUser, "@alice:example.org" }
RoomIds == { "!r1", "!r2" }
EventIds == { "$e1", "$e2" }
\* An event id names an event of one room: the events of each room.
EventIdsOf(room_id) == IF room_id = "!r1" THEN { "$e1" } ELSE { "$e2" }
\* event.content.relates_to: no relation, a reply, or another relation.
Relations == { "None", "Reply", "Replacement" }
\* event.content.msgtype: text or something else.
MsgTypes == { "Text", "Image" }
\* matrix_sdk::room::Room
Rooms == [ kind : { "Joined" }, room_id : RoomIds ]
           \cup [ kind : { "Invited", "Left" }, room_id : { "!r1" } ]

Http == SchemeHttp
\* The words message bodies are made of.
WordPlain     == << "h","i" >>
WordUrlA      == Http \o << "a",".","i","o","/","x" >>
WordUrlB      == << "(" >> \o SchemeHttps \o << "b",".","i","o" >>
WordLoopback  == Http \o Loopback \o << "/","x" >>
WordMixedCase == Http \o << "a",".","i","o","/","L","o","c","a","l","H","o","s","t" >>
WordBareHost  == Http \o Localhost \o << "/","x" >>
WordUserinfo  == Http \o << "u","@" >> \o Localhost
Words == { WordPlain, WordUrlA, WordUrlB, WordLoopback, WordMixedCase,
           WordBareHost, WordUserinfo }

\* The words of ws joined by single spaces.
RECURSIVE Join(_)
Join(ws) ==
    IF ws = << >> THEN << >>
    ELSE IF Len(ws) = 1 THEN ws[1]
    ELSE ws[1] \o << " " >> \o Join(Tail(ws))

Bodies == { Join(ws) : ws \in UNION { [1..n -> Words] : n \in 0..MaxWords } }

\* OriginalSyncRoomMessageEvent, as far as embed_handler reads it.
Events == [ sender : Users, relates_to : Relations, msgtype : MsgTypes,
            body : Bodies, event_id : EventIds ]

\* client.user_id(): run registers embed_handler (lib.rs:169) only after the
\* login of lib.rs:134-139 succeeded, so the client has a user id.
client_user_id == Some(BotUser)

(***************************************************************************)
(* The state of one embed_handler invocation, for any one message event    *)
(* (Init): the handler keeps nothing from one invocation to the next.      *)
(*   pc        where the handler is: "start", "sender", "reply",           *)
(*             "msgtype", "extract", "loop", "fetching" (awaiting send()), *)
(*             "reading" (awaiting text()), "sending" (awaiting            *)
(*             room.send()), "done" (returned), "panicked"                 *)
(*   event     the message event                                           *)
(*   room      the room it arrived in                                      *)
(*   urls      None until get_urls_from_message ran, then Some(its result) *)
(*   i         loop position: the index in urls of the current url         *)
(*   attempts  history: one record per GET request issued, in order: the   *)
(*             position and slice of the url, how send() and text() ended  *)
(*             ("pending"/"none" until they did), the page read, and how   *)
(*             parse_metadata ended ("some", "none", "panic")              *)
(*   sent      history: one record per room.send call, in order: the       *)
(*             attempt it is for and the reply                             *)
(*   send_result  how the latest room.send call ended: "none" before the   *)
(*             first call, "pending" while it is awaited, "ok", "err"      *)
(***************************************************************************)
VARIABLES pc, event, room, urls, i, attempts, sent, send_result

handler_vars == << pc, event, room, urls, i, attempts, sent, send_result >>

(***************************************************************************)
(* The state of run (lib.rs), which starts the bot and registers the       *)
(* handler:                                                                *)
(*   run_pc    where run is: "create_client", "login", "sync_once" (the    *)
(*             awaited startup calls), "devices" (awaiting                 *)
(*             client.devices()), "delete" (awaiting the first             *)
(*             delete_devices), "retry" (awaiting the one with the         *)
(*             password), "invites" (at the head of the loop of            *)
(*             reject_stale_invites), "accepting", "joining", "rejecting"  *)
(*             (awaiting the call for the current invitation), "syncing"   *)
(*             (handlers registered, in client.sync), "returned" (run      *)
(*             returned Err), "panicked"                                   *)
(*   failed_step  the call whose failure ended run, "" while none did      *)
(*   account_devices  the devices client.devices() answers with            *)
(*   delete_requests  history: one record per delete_devices call, in      *)
(*             order: the list passed, the auth data ("None" or            *)
(*             "Password"), and how it ended ("pending", "ok", "uiaa": an  *)
(*             error with a UIAA response, "err": any other error)         *)
(*   cleanup_result  what delete_old_encryption_devices returned: "none"   *)
(*             until it did, "ok", "err"                                   *)
(*   invited_rooms  the invited rooms the loop has still to visit, the     *)
(*             current one first                                           *)
(***************************************************************************)
VARIABLES run_pc, failed_step, account_devices, delete_requests,
          cleanup_result, invited_rooms

(***************************************************************************)
(* Another invocation of the handler, for another message event, that the  *)
(* runtime holds while this one runs:                                      *)
(*   suspended  None when there is no other invocation, else the state of  *)
(*             its future: a record of pc, event, room, urls, i, attempts, *)
(*             sent and send_result                                        *)
(***************************************************************************)
VARIABLES suspended

host == << run_pc, failed_step, account_devices, delete_requests,
           cleanup_result, invited_rooms, suspended >>

vars == << handler_vars, host >>

\* client.device_id() after the login
current_device_id == 0

\* The bot after a startup with no old device and no invitation: the one
\* delete request, for the empty list, succeeded, and run is in client.sync.
Started ==
    /\ run_pc = "syncing"
    /\ failed_step = ""
    /\ account_devices = << current_device_id >>
    /\ delete_requests = << [ devices |-> << >>, auth |-> "None", result |-> "ok" ] >>
    /\ cleanup_result = "ok"
    /\ invited_rooms = << >>

\* Variant: the sender is compared with the wrong identifier.
is_own_message_wrong_id(ev) == ev.sender = ev.event_id

\* event.sender == client_user_id
is_own_message(ev) == ev.sender = Unwrap(client_user_id)

\* Variant: the wrong variant of Relation is matched.
is_reply_wrong_variant(ev) == ev.relates_to = "Replacement"

\* let Some(Relation::Reply { .. }) = &event.content.relates_to
is_reply(ev) == ev.relates_to = "Reply"

\* Variant: every message type is taken for plain text.
is_text_any(ev) == ev.msgtype \in MsgTypes

\* let MessageType::Text(text_content) = event.content.msgtype
is_text(ev) == ev.msgtype = "Text"

\* Variant: the reply names the room where the original event belongs.
make_reply_to_room(content, ev, rm) ==
    [ room_id |-> rm.room_id, in_reply_to |-> rm.room_id,
      body |-> content.body, formatted |-> content.formatted ]

\* RoomMessageEventContent::text_html(..).make_reply_to(&full_reply_event),
\* handed to room.send of the joined room rm.
make_reply_to(content, ev, rm) ==
    [ room_id |-> rm.room_id, in_reply_to |-> ev.event_id,
      body |-> content.body, formatted |-> content.formatted ]

\* The embed for metadata that was found.
embed_content(embed) ==
    [ body |-> embed.title,
      formatted |-> << "<blockquote><h4>", embed.title, "</h4><p>",
                       embed.description, "</p></blockquote>" >> ]

\* The generic "No metadata" response.
no_metadata_content ==
    [ body |-> "Couldn't parse metadata for URL",
      formatted |-> << "<blockquote><h5>Couldn't parse metadata for URL</h5></blockquote>" >> ]

Init ==
    /\ pc = "start"
    /\ event \in Events
    /\ room \in Rooms
    /\ event.event_id \in EventIdsOf(room.room_id)
    /\ urls = None
    /\ i = 1
    /\ attempts = << >>
    /\ sent = << >>
    /\ send_result = "none"
    /\ Started
    /\ suspended = None

\* if let Room::Joined(room) = room
CheckRoom ==
    /\ pc = "start"
    /\ pc' = IF room.kind = "Joined" THEN "sender" ELSE "done"
    /\ UNCHANGED << event, room, urls, i, attempts, sent, send_result >>
    /\ UNCHANGED host

\* client.user_id().unwrap(); if event.sender == client_user_id { return; }
CheckSender ==
    /\ pc = "sender"
    /\ pc' = IF client_user_id = None THEN "panicked"
             ELSE IF is_own_message(event) THEN "done"
             ELSE "reply"
    /\ UNCHANGED << event, room, urls, i, attempts, sent, send_result >>
    /\ UNCHANGED host

\* if let Some(Relation::Reply { .. }) = .. { return; }
CheckReply ==
    /\ pc = "reply"
    /\ pc' = IF is_reply(event) THEN "done" ELSE "msgtype"
    /\ UNCHANGED << event, room, urls, i, attempts, sent, send_result >>
    /\ UNCHANGED host

\* let MessageType::Text(text_content) = .. else { return; }
CheckMsgtype ==
    /\ pc = "msgtype"
    /\ pc' = IF is_text(event) THEN "extract" ELSE "done"
    /\ UNCHANGED << event, room, urls, i, attempts, sent, send_result >>
    /\ UNCHANGED host

\* let urls = get_urls_from_message(&text_content.body); the reqwest client
\* is built (a fixed user agent: the build does not fail).
Extract ==
    /\ pc = "extract"
    /\ urls' = Some(get_urls_from_message(event.body))
    /\ i' = 1
    /\ pc' = "loop"
    /\ UNCHANGED << event, room, attempts, sent, send_result >>
    /\ UNCHANGED host

\* for url in urls: the next url, if any, is requested:
\* reqwest_client.get(url).send()
LoopNext ==
    /\ pc = "loop"
    /\ IF i <= Len(Unwrap(urls))
       THEN /\ attempts' = Append(attempts,
                   [ index |-> i, url |-> Unwrap(urls)[i],
                     fetch |-> "pending", read |-> "none", page |-> None,
                     parse |-> "none" ])
            /\ pc' = "fetching"
       ELSE /\ pc' = "done"
            /\ UNCHANGED attempts
    /\ UNCHANGED << event, room, urls, i, sent, send_result >>
    /\ UNCHANGED host

\* The current attempt with field f set to v.
Mark(f, v) == [ attempts EXCEPT ![Len(attempts)] = [ @ EXCEPT ![f] = v ] ]

\* The current attempt after text() returned page and parse_metadata ended
\* with outcome p.
MarkRead(page, p) ==
    [ attempts EXCEPT ![Len(attempts)] =
        [ @ EXCEPT !.read = "ok", !.page = Some(page), !.parse = p ] ]

\* send().await is Ok(req): the body is read, req.text()
FetchOk ==
    /\ pc = "fetching"
    /\ attempts' = Mark("fetch", "ok")
    /\ pc' = "reading"
    /\ UNCHANGED << event, room, urls, i, sent, send_result >>
    /\ UNCHANGED host

\* Variant: a failed fetch is answered with the "No metadata" response.
FetchErr_notice ==
    /\ pc = "fetching"
    /\ attempts' = Mark("fetch", "err")
    /\ sent' = Append(sent,
            [ attempt |-> Len(attempts),
              reply |-> make_reply_to(no_metadata_content, event, room) ])
    /\ send_result' = "pending"
    /\ pc' = "sending"
    /\ UNCHANGED << event, room, urls, i >>
    /\ UNCHANGED host

\* Variant: a failed fetch is tried again.
FetchErr_retry ==
    /\ pc = "fetching"
    /\ attempts' = Mark("fetch", "err")
    /\ pc' = "loop"
    /\ UNCHANGED << event, room, urls, i, sent, send_result >>
    /\ UNCHANGED host

\* send().await is Err: warn!("Failed to fetch metadata ..."), next url
FetchErr ==
    /\ pc = "fetching"
    /\ attempts' = Mark("fetch", "err")
    /\ i' = i + 1
    /\ pc' = "loop"
    /\ UNCHANGED << event, room, urls, sent, send_result >>
    /\ UNCHANGED host

\* text().await is Err: warn!("Failed to parse HTML ..."), next url
ReadErr ==
    /\ pc = "reading"
    /\ attempts' = Mark("read", "err")
    /\ i' = i + 1
    /\ pc' = "loop"
    /\ UNCHANGED << event, room, urls, sent, send_result >>
    /\ UNCHANGED host

\* Variant: the event to reply to is kept in a static that the invocations
\* share, and another invocation has overwritten it.
Dispatch_shared(content) ==
    [ attempt |-> Len(attempts),
      reply |-> make_reply_to(content,
                    IF suspended # None THEN Unwrap(suspended).event ELSE event,
                    room) ]

\* The record of a room.send call for the current attempt.
Dispatch(content) ==
    [ attempt |-> Len(attempts), reply |-> make_reply_to(content, event, room) ]

\* Variant: room.send is started and not awaited: the loop goes on to the
\* next url while the dispatch is in flight.
ReadOk_spawn(page) ==
    /\ pc = "reading"
    /\ LET parsed == parse_metadata(page)
           metadata == parsed.value
       IN  IF parsed.panicked
           THEN /\ attempts' = MarkRead(page, "panic")
                /\ pc' = "panicked"
                /\ UNCHANGED << i, sent, send_result >>
           ELSE /\ attempts' = MarkRead(page, IF metadata # None THEN "some" ELSE "none")
                /\ sent' = Append(sent, Dispatch(
                        IF metadata # None THEN embed_content(Unwrap(metadata))
                        ELSE no_metadata_content))
                /\ send_result' = "pending"
                /\ i' = i + 1
                /\ pc' = "loop"
    /\ UNCHANGED << event, room, urls >>
    /\ UNCHANGED host

\* text().await is Ok(res): parse_metadata(&res), then the reply is built
\* and room.send(bot_reply, None) is called.
ReadOk(page) ==
    /\ pc = "reading"
    /\ LET parsed == parse_metadata(page)
           metadata == parsed.value
       IN  IF parsed.panicked
           THEN /\ attempts' = MarkRead(page, "panic")
                /\ pc' = "panicked"
                /\ UNCHANGED << sent, send_result >>
           ELSE IF metadata # None
           THEN /\ attempts' = MarkRead(page, "some")
                /\ sent' = Append(sent, Dispatch(embed_content(Unwrap(metadata))))
                /\ send_result' = "pending"
                /\ pc' = "sending"
           ELSE /\ attempts' = MarkRead(page, "none")
                /\ sent' = Append(sent, Dispatch(no_metadata_content))
                /\ send_result' = "pending"
                /\ pc' = "sending"
    /\ UNCHANGED << event, room, urls, i >>
    /\ UNCHANGED host

\* room.send(..).await returned (Err is logged: warn!("Failed to send embed
\* ...")), next url
SendDone(res) ==
    /\ pc = "sending"
    /\ send_result' = res
    /\ i' = i + 1
    /\ pc' = "loop"
    /\ UNCHANGED << event, room, urls, attempts, sent >>
    /\ UNCHANGED host

SendOk == SendDone("ok")
SendErr == SendDone("err")

Next ==
    \/ CheckRoom
    \/ CheckSender
    \/ CheckReply
    \/ CheckMsgtype
    \/ Extract
    \/ LoopNext
    \/ FetchOk
    \/ FetchErr
    \/ ReadErr
    \/ \E page \in Pages : ReadOk(page)
    \/ SendOk
    \/ SendErr

Spec == Init /\ [][Next]_vars

(***************************************************************************)
(* run (lib.rs): startup, cleanup of old devices, stale invitations, then  *)
(* the sync loop that hands message events to embed_handler.               *)
(***************************************************************************)
MaxOldDevices == 2
MaxInvites == 2

\* Device ids: the current device and the old ones.
DeviceIds == 0..MaxOldDevices

\* The lists client.devices() can answer with: registered devices, each
\* once, in any order, the current device (registered by the login) among
\* them.
DeviceLists ==
    { s \in UNION { [1..n -> DeviceIds] : n \in 1..(MaxOldDevices + 1) } :
        /\ \A a, b \in 1..Len(s) : a # b => s[a] # s[b]
        /\ \E a \in 1..Len(s) : s[a] = current_device_id }

\* Variant: the device list is passed on unfiltered.
old_devices_unfiltered(devices) == devices

\* .devices.iter().filter(|d| d.device_id != current_device_id)
\*     .map(|d| d.device_id.to_owned()).collect()
old_devices(devices) ==
    SelectSeq(devices, LAMBDA d : d # current_device_id)

\* An invited room, as far as reject_stale_invites reads it: is_space(),
\* is_direct(), and whether config.room_ids holds its id.
InvitedRooms == [ is_space : BOOLEAN, is_direct : BOOLEAN, configured : BOOLEAN ]

\* client.invited_rooms()
InvitedRoomLists == UNION { [1..n -> InvitedRooms] : n \in 0..MaxInvites }

\* !room.is_space() && !room.is_direct()
\*     && config.room_ids.iter().any(|r| *r == room.room_id())
is_wanted(invited) ==
    ~invited.is_space /\ ~invited.is_direct /\ invited.configured

\* The message events the sync loop hands to the handler in this model: a
\* text message with one URL, in a joined room.
RunEvents ==
    [ sender : Users, relates_to : { "None" }, msgtype : { "Text" },
      body : { WordUrlA }, event_id : { "$e1" } ]

InitRun ==
    /\ run_pc = "create_client"
    /\ failed_step = ""
    /\ account_devices \in DeviceLists
    /\ delete_requests = << >>
    /\ cleanup_result = "none"
    /\ invited_rooms \in InvitedRoomLists
    /\ suspended = None
    /\ pc = "idle"
    /\ event \in RunEvents
    /\ room = [ kind |-> "Joined", room_id |-> "!r1" ]
    /\ urls = None
    /\ i = 1
    /\ attempts = << >>
    /\ sent = << >>
    /\ send_result = "none"

\* .expect(..) on an Err: run panics in this step.
Panic(step) ==
    /\ run_pc' = "panicked"
    /\ failed_step' = step

\* `?` on an Err: run returns the error of this step.
ReturnErr(step) ==
    /\ run_pc' = "returned"
    /\ failed_step' = step

\* config.create_client().await.expect(..)
CreateClient(ok) ==
    /\ run_pc = "create_client"
    /\ IF ok THEN run_pc' = "login" /\ UNCHANGED failed_step
       ELSE Panic("create_client")
    /\ UNCHANGED << account_devices, delete_requests, cleanup_result, invited_rooms >>
    /\ UNCHANGED << handler_vars, suspended >>

\* client.login_username(..).send().await.expect(..)
Login(ok) ==
    /\ run_pc = "login"
    /\ IF ok THEN run_pc' = "sync_once" /\ UNCHANGED failed_step
       ELSE Panic("login")
    /\ UNCHANGED << account_devices, delete_requests, cleanup_result, invited_rooms >>
    /\ UNCHANGED << handler_vars, suspended >>

\* client.sync_once(..).await.expect(..); then
\* delete_old_encryption_devices starts: client.devices() is called.
SyncOnce(ok) ==
    /\ run_pc = "sync_once"
    /\ IF ok THEN run_pc' = "devices" /\ UNCHANGED failed_step
       ELSE Panic("sync_once")
    /\ UNCHANGED << account_devices, delete_requests, cleanup_result, invited_rooms >>
    /\ UNCHANGED << handler_vars, suspended >>

\* A delete_devices call with the list ds and the auth data auth.
DeleteRequest(ds, auth) == [ devices |-> ds, auth |-> auth, result |-> "pending" ]

\* The history with the result of the latest delete_devices call set.
Answered(res) ==
    [ delete_requests EXCEPT ![Len(delete_requests)] = [ @ EXCEPT !.result = res ] ]

\* client.devices().await?: on Ok the old devices are collected and
\* client.delete_devices(&old_devices, None) is called; on Err
\* delete_old_encryption_devices returns it, and so does run (line 153).
GetDevices(ok) ==
    /\ run_pc = "devices"
    /\ IF ok
       THEN /\ delete_requests' = Append(delete_requests,
                   DeleteRequest(old_devices(account_devices), "None"))
            /\ run_pc' = "delete"
            /\ UNCHANGED << failed_step, cleanup_result >>
       ELSE /\ cleanup_result' = "err"
            /\ ReturnErr("devices")
            /\ UNCHANGED delete_requests
    /\ UNCHANGED << account_devices, invited_rooms >>
    /\ UNCHANGED << handler_vars, suspended >>

\* if let Err(e) = client.delete_devices(&old_devices, None).await: on Ok,
\* and on an Err without a UIAA response, the function goes on to Ok(());
\* on an Err with a UIAA response the request is repeated with the password.
DeleteFirst(res) ==
    /\ run_pc = "delete"
    /\ IF res = "uiaa"
       THEN /\ delete_requests' = Append(Answered(res),
                   DeleteRequest(old_devices(account_devices), "Password"))
            /\ run_pc' = "retry"
            /\ UNCHANGED cleanup_result
       ELSE /\ delete_requests' = Answered(res)
            /\ cleanup_result' = "ok"
            /\ run_pc' = "invites"
    /\ UNCHANGED << failed_step, account_devices, invited_rooms >>
    /\ UNCHANGED << handler_vars, suspended >>

\* client.delete_devices(&old_devices, Some(..Password..)).await?
DeleteRetry(res) ==
    /\ run_pc = "retry"
    /\ delete_requests' = Answered(res)
    /\ IF res = "ok"
       THEN /\ cleanup_result' = "ok"
            /\ run_pc' = "invites"
            /\ UNCHANGED failed_step
       ELSE /\ cleanup_result' = "err"
            /\ ReturnErr("delete_devices")
    /\ UNCHANGED << account_devices, invited_rooms >>
    /\ UNCHANGED << handler_vars, suspended >>

\* for room in client.invited_rooms(): the next invitation is accepted or
\* rejected; after the last one the handlers are registered and client.sync
\* starts.
InviteNext ==
    /\ run_pc = "invites"
    /\ run_pc' = IF invited_rooms = << >> THEN "syncing"
                 ELSE IF is_wanted(Head(invited_rooms)) THEN "accepting"
                 ELSE "rejecting"
    /\ UNCHANGED << failed_step, account_devices, delete_requests,
                    cleanup_result, invited_rooms >>
    /\ UNCHANGED << handler_vars, suspended >>

\* room.accept_invitation().await.expect("Failed to accept invite"); then
\* client.join_room_by_id is called.
Accept(ok) ==
    /\ run_pc = "accepting"
    /\ IF ok THEN run_pc' = "joining" /\ UNCHANGED failed_step
       ELSE Panic("accept_invitation")
    /\ UNCHANGED << account_devices, delete_requests, cleanup_result, invited_rooms >>
    /\ UNCHANGED << handler_vars, suspended >>

\* The call for the current invitation returned; its error, if any, is
\* logged (join_room_by_id) or dropped (reject_invitation): next invitation.
InviteDone(at) ==
    /\ run_pc = at
    /\ invited_rooms' = Tail(invited_rooms)
    /\ run_pc' = "invites"
    /\ UNCHANGED << failed_step, account_devices, delete_requests, cleanup_result >>
    /\ UNCHANGED << handler_vars, suspended >>

\* if let Err(e) = client.join_room_by_id(..).await { error!(..) }
Join_room == InviteDone("joining")

\* room.reject_invitation().await.unwrap_or_default()
Reject == InviteDone("rejecting")

\* client.sync(..) receives the message event and calls embed_handler
\* (registered at line 169) with it.
Deliver ==
    /\ run_pc = "syncing"
    /\ pc = "idle"
    /\ pc' = "start"
    /\ UNCHANGED << event, room, urls, i, attempts, sent, send_result >>
    /\ UNCHANGED host

\* client.sync(..).await?: the sync loop ends with an error.
SyncFails ==
    /\ run_pc = "syncing"
    /\ ReturnErr("sync")
    /\ UNCHANGED << account_devices, delete_requests, cleanup_result, invited_rooms >>
    /\ UNCHANGED << handler_vars, suspended >>

\* A step of the handler while run is in client.sync.
Handle == run_pc = "syncing" /\ Next

NextRun ==
    \/ \E ok \in BOOLEAN : CreateClient(ok)
    \/ \E ok \in BOOLEAN : Login(ok)
    \/ \E ok \in BOOLEAN : SyncOnce(ok)
    \/ \E ok \in BOOLEAN : GetDevices(ok)
    \/ \E res \in { "ok", "uiaa", "err" } : DeleteFirst(res)
    \/ \E res \in { "ok", "uiaa", "err" } : DeleteRetry(res)
    \/ InviteNext
    \/ \E ok \in BOOLEAN : Accept(ok)
    \/ Join_room
    \/ Reject
    \/ Deliver
    \/ SyncFails
    \/ Handle

SpecRun == InitRun /\ [][NextRun]_vars

(***************************************************************************)
(* handle_message_events (main.rs): the message handler of the binary      *)
(* entry point, over the same state as embed_handler.  Its positions:      *)
(* "start", "msgtype", "sender", "find" (RE.find on the lowercased body),  *)
(* "fetching", "reading", "sending", "done", "panicked".                   *)
(***************************************************************************)
\* parse_metadata of main.rs: a pair of strings, "None" for what is absent.
main_parse_metadata(page) ==
    LET meta_title == IF page.title # None THEN Unwrap(page.title) ELSE "None"
    IN  IF page.desc # None
        THEN IF Unwrap(page.desc) = None
             THEN Panicked
             ELSE Returned(<< meta_title, Unwrap(Unwrap(page.desc)) >>)
        ELSE Returned(<< meta_title, "None" >>)

\* RoomMessageEventContent::text_plain(format!("Title: {}\nDescription: {}",
\* title, desc))
main_content(metadata) ==
    [ body |-> << "Title: ", metadata[1], "\nDescription: ", metadata[2] >>,
      formatted |-> << >> ]

\* RE.find(&msg): the first match, if any.
find(msg) ==
    LET ms == find_iter(msg, 1)
    IN  IF ms = << >> THEN None ELSE Some(Head(ms))

\* url.as_str().contains("localhost") || url.as_str().contains("127.0.0.1")
main_points_to_localhost(text) ==
    contains(text, Localhost) \/ contains(text, Loopback)

InitMain == Init

\* if let Room::Joined(room) = room
MainCheckRoom ==
    /\ pc = "start"
    /\ pc' = IF room.kind = "Joined" THEN "msgtype" ELSE "done"
    /\ UNCHANGED << event, room, urls, i, attempts, sent, send_result >>
    /\ UNCHANGED host

\* let MessageType::Text(text_content) = ev.content.msgtype else { return; }
MainCheckMsgtype ==
    /\ pc = "msgtype"
    /\ pc' = IF is_text(event) THEN "sender" ELSE "done"
    /\ UNCHANGED << event, room, urls, i, attempts, sent, send_result >>
    /\ UNCHANGED host

\* client.user_id().unwrap(); if ev.sender == client_user_id { return; }
MainCheckSender ==
    /\ pc = "sender"
    /\ pc' = IF client_user_id = None THEN "panicked"
             ELSE IF is_own_message(event) THEN "done"
             ELSE "find"
    /\ UNCHANGED << event, room, urls, i, attempts, sent, send_result >>
    /\ UNCHANGED host

\* let msg = text_content.body.to_lowercase(); if let Some(url) =
\* RE.find(&msg): a loopback target ends the handler, any other first match
\* is requested, reqwest::get(url.as_str()); without a match the handler
\* ends.
MainFind ==
    /\ pc = "find"
    /\ LET msg == to_lowercase(event.body)
           url == find(msg)
       IN  IF url = None
           THEN /\ urls' = Some(<< >>)
                /\ pc' = "done"
                /\ UNCHANGED attempts
           ELSE IF main_points_to_localhost(Slice(msg, Unwrap(url)))
           THEN /\ urls' = Some(<< >>)
                /\ pc' = "done"
                /\ UNCHANGED attempts
           ELSE /\ urls' = Some(<< Unwrap(url) >>)
                /\ attempts' = Append(attempts,
                       [ index |-> 1, url |-> Unwrap(url),
                         fetch |-> "pending", read |-> "none", page |-> None,
                         parse |-> "none" ])
                /\ pc' = "fetching"
    /\ UNCHANGED << event, room, i, sent, send_result >>
    /\ UNCHANGED host

\* if let Ok(req) = reqwest::get(..).await: the body is read, req.text();
\* else warn!("Failed to get metadata ...") and the handler ends.
MainFetch(ok) ==
    /\ pc = "fetching"
    /\ attempts' = Mark("fetch", IF ok THEN "ok" ELSE "err")
    /\ pc' = IF ok THEN "reading" ELSE "done"
    /\ UNCHANGED << event, room, urls, i, sent, send_result >>
    /\ UNCHANGED host

\* req.text().await is Err: warn!("Failed to parse HTML response ..."), the
\* handler ends.
MainReadErr ==
    /\ pc = "reading"
    /\ attempts' = Mark("read", "err")
    /\ pc' = "done"
    /\ UNCHANGED << event, room, urls, i, sent, send_result >>
    /\ UNCHANGED host

\* req.text().await is Ok(resp): parse_metadata(&resp), then the reply is
\* built and room.send(msg_reply, None) is called.
MainReadOk(page) ==
    /\ pc = "reading"
    /\ LET parsed == main_parse_metadata(page)
       IN  IF parsed.panicked
           THEN /\ attempts' = MarkRead(page, "panic")
                /\ pc' = "panicked"
                /\ UNCHANGED << sent, send_result >>
           ELSE /\ attempts' = MarkRead(page, "some")
                /\ sent' = Append(sent, Dispatch(main_content(parsed.value)))
                /\ send_result' = "pending"
                /\ pc' = "sending"
    /\ UNCHANGED << event, room, urls, i >>
    /\ UNCHANGED host

\* room.send(msg_reply, None).await returned (is_err() is logged), the
\* handler ends.
MainSendDone(res) ==
    /\ pc = "sending"
    /\ send_result' = res
    /\ pc' = "done"
    /\ UNCHANGED << event, room, urls, i, attempts, sent >>
    /\ UNCHANGED host

NextMain ==
    \/ MainCheckRoom
    \/ MainCheckMsgtype
    \/ MainCheckSender
    \/ MainFind
    \/ \E ok \in BOOLEAN : MainFetch(ok)
    \/ MainReadErr
    \/ \E page \in Pages : MainReadOk(page)
    \/ \E res \in { "ok", "err" } : MainSendDone(res)

SpecMain == InitMain /\ [][NextMain]_vars

(***************************************************************************)
(* Two invocations of embed_handler for different message events, run      *)
(* interleaved by the runtime behind client.sync (lib.rs:169-173).  The    *)
(* handler variables hold the invocation that is running; the runtime      *)
(* keeps the other one.  All the state of an invocation lives in its own   *)
(* future: embed_handler has no static but the compiled RE.                *)
(***************************************************************************)
\* The state of the future of the running invocation.
Saved ==
    [ pc |-> pc, event |-> event, room |-> room, urls |-> urls, i |-> i,
      attempts |-> attempts, sent |-> sent, send_result |-> send_result ]

\* The state of an invocation that has just been called with event ev in
\* room rm.
Called(ev, rm) ==
    [ pc |-> "start", event |-> ev, room |-> rm, urls |-> None, i |-> 1,
      attempts |-> << >>, sent |-> << >>, send_result |-> "none" ]

\* The message events of the interleaved invocations: text messages with
\* one URL or two, from either user.
ConcEvents(event_id) ==
    [ sender : Users, relates_to : { "None" }, msgtype : { "Text" },
      body : { WordUrlA, Join(<< WordUrlA, WordUrlB >>) },
      event_id : { event_id } ]

InitConc ==
    /\ Started
    /\ \E ev \in ConcEvents("$e2") :
          suspended = Some(Called(ev, [ kind |-> "Joined", room_id |-> "!r2" ]))
    /\ pc = "start"
    /\ event \in ConcEvents("$e1")
    /\ room = [ kind |-> "Joined", room_id |-> "!r1" ]
    /\ urls = None
    /\ i = 1
    /\ attempts = << >>
    /\ sent = << >>
    /\ send_result = "none"

\* The runtime stops polling the running invocation and polls the other
\* one: each future keeps its own state.
Switch ==
    /\ suspended # None
    /\ suspended' = Some(Saved)
    /\ pc' = Unwrap(suspended).pc
    /\ event' = Unwrap(suspended).event
    /\ room' = Unwrap(suspended).room
    /\ urls' = Unwrap(suspended).urls
    /\ i' = Unwrap(suspended).i
    /\ attempts' = Unwrap(suspended).attempts
    /\ sent' = Unwrap(suspended).sent
    /\ send_result' = Unwrap(suspended).send_result
    /\ UNCHANGED << run_pc, failed_step, account_devices, delete_requests,
                    cleanup_result, invited_rooms >>

NextConc ==
    \/ Next
    \/ Switch

SpecConc == InitConc /\ [][NextConc]_vars


(***************************************************************************)
(* Vocabulary of the properties.                                           *)
(***************************************************************************)
TypeOK ==
    /\ pc \in { "start", "sender", "reply", "msgtype", "extract", "loop",
                "fetching", "reading", "sending", "done", "panicked" }
    /\ event \in Events
    /\ room \in Rooms
    /\ urls = None \/ Len(urls) = 1
    /\ i \in 1..(MaxWords + 1)
    /\ Len(attempts) <= MaxWords
    /\ Len(sent) <= MaxWords
    /\ send_result \in { "none", "pending", "ok", "err" }

\* The handler has ended: it returned, or it panicked.
Finished == pc \in { "done", "panicked" }

\* The message passes the checks of the handler: joined room, not the bot's
\* own message, not a reply, plain text.
Eligible ==
    /\ room.kind = "Joined"
    /\ event.sender # BotUser
    /\ event.relates_to # "Reply"
    /\ event.msgtype = "Text"

\* The text of a slice of the message body.
Text(r) == Slice(event.body, r)

\* The text contains "localhost" or "127.0.0.1" in some letter case.
NamesLoopback(t) ==
    \E pat \in { Localhost, Loopback } :
        \E p \in 1..(Len(t) - Len(pat) + 1) :
            \A k \in 1..Len(pat) : to_lowercase_char(t[p + k - 1]) = pat[k]

\* The matches ms of RE in body b that do not name a loopback target.
RECURSIVE NotLoopback(_, _)
NotLoopback(b, ms) ==
    IF ms = << >> THEN << >>
    ELSE IF NamesLoopback(Slice(b, Head(ms))) THEN NotLoopback(b, Tail(ms))
    ELSE << Head(ms) >> \o NotLoopback(b, Tail(ms))

\* For every body, the matches of RE in it in order of appearance, and those
\* among them that do not name a loopback target (tables: they are computed
\* once, not in every state).
MatchTable == [ b \in Bodies |-> find_iter(b, 1) ]
OtherTable == [ b \in Bodies |-> NotLoopback(b, MatchTable[b]) ]
Matches == MatchTable[event.body]
Others == OtherTable[event.body]

\* The slices fetched so far, in the order of the requests.
Fetched == [ k \in 1..Len(attempts) |-> attempts[k].url ]

\* The room.send calls made for attempt k.
SentFor(k) == { j \in 1..Len(sent) : sent[j].attempt = k }

\* Nothing of the pipeline has run: no extraction, no fetch, no reply.
Untouched == urls = None /\ attempts = << >> /\ sent = << >>

(***************************************************************************)
(* C1.  A message whose sender is the bot's own user causes no fetch and   *)
(* no reply, whatever its body holds; and until the sender check has been  *)
(* passed, no URL has been extracted, nothing fetched and nothing sent.    *)
(***************************************************************************)
C1_OwnMessageIgnored ==
    /\ event.sender = BotUser => Untouched
    /\ pc \in { "start", "sender" } => Untouched

\* The bot's own message, otherwise eligible and carrying a URL, was handled.
C1_Witness ==
    /\ pc = "done"
    /\ event.sender = BotUser
    /\ room.kind = "Joined"
    /\ event.relates_to = "None"
    /\ event.msgtype = "Text"
    /\ event.body = WordUrlA

(***************************************************************************)
(* C2.  A message that carries a reply relation causes no fetch and no     *)
(* reply, whatever URLs its body holds.                                    *)
(***************************************************************************)
C2_ReplyIgnored ==
    event.relates_to = "Reply" => attempts = << >> /\ sent = << >>

\* A reply by another user, in a joined room, with a URL in it, was handled.
C2_Witness ==
    /\ pc = "done"
    /\ event.relates_to = "Reply"
    /\ event.sender # BotUser
    /\ room.kind = "Joined"
    /\ event.msgtype = "Text"
    /\ event.body = Join(<< WordPlain, WordUrlA >>)

(***************************************************************************)
(* C3.  For an eligible message whose body holds exactly one URL u that    *)
(* is not filtered: never more than one fetch is made; when the handler    *)
(* has ended exactly one fetch was made, of u; and when the fetched page   *)
(* yielded metadata exactly one reply was dispatched, to the room of the   *)
(* message and as a reply to the original event.                           *)
(***************************************************************************)
C3_OneUrlOneFetchOneReply ==
    (Eligible /\ Len(Others) = 1) =>
        LET u == Others[1]
        IN  /\ Len(attempts) <= 1
            /\ \A k \in 1..Len(attempts) : Text(attempts[k].url) = Text(u)
            /\ Finished => Len(attempts) = 1
            /\ (Finished /\ Len(attempts) = 1 /\ attempts[1].parse = "some") =>
                  /\ Len(sent) = 1
                  /\ sent[1].reply.room_id = room.room_id
                  /\ sent[1].reply.in_reply_to = event.event_id

\* "hi http://a.io/x" by another user: fetched, metadata found, reply sent.
C3_Witness ==
    /\ pc = "done"
    /\ Eligible
    /\ event.body = Join(<< WordPlain, WordUrlA >>)
    /\ Len(attempts) = 1
    /\ Text(attempts[1].url) = WordUrlA
    /\ attempts[1].parse = "some"
    /\ Len(sent) = 1
    /\ send_result = "ok"
    /\ sent[1].reply.body = "T"


(***************************************************************************)
(* C4.  When the handler has ended, every url returned by                  *)
(* get_urls_from_message has had its fetch attempt, whatever happened to   *)
(* the urls before it.                                                     *)
(***************************************************************************)
C4_EveryUrlFetched ==
    (Finished /\ urls # None) => Fetched = Unwrap(urls)

(***************************************************************************)
(* C5.  The handler never panics.                                          *)
(***************************************************************************)
C5_NeverPanics == pc # "panicked"

(***************************************************************************)
(* C6.  Every url whose fetch and body read both succeeded has exactly one *)
(* reply dispatched for it: the embed with the title and description when  *)
(* the page has metadata, the "Couldn't parse metadata for URL" notice     *)
(* when it has none.                                                       *)
(***************************************************************************)
C6_OneReplyPerPage ==
    \A k \in 1..Len(attempts) :
        (attempts[k].fetch = "ok" /\ attempts[k].read = "ok") =>
            /\ Cardinality(SentFor(k)) = 1
            /\ \A j \in SentFor(k) :
                  LET page == Unwrap(attempts[k].page)
                      reply == sent[j].reply
                  IN  IF page.title = None /\ page.desc = None
                      THEN reply.body = "Couldn't parse metadata for URL"
                      ELSE /\ reply.body # "Couldn't parse metadata for URL"
                           /\ Len(reply.formatted) = 5
                           /\ page.title # None =>
                                 reply.formatted[2] = Unwrap(page.title)
                           /\ (page.desc # None /\ Unwrap(page.desc) # None) =>
                                 reply.formatted[4] = Unwrap(Unwrap(page.desc))

(***************************************************************************)
(* C7.  A reply is dispatched for a url only once the fetch and the body   *)
(* read of that same url have succeeded; a url whose fetch or body read    *)
(* failed, or has not completed, has no reply; and after such a failure    *)
(* the loop is at the next url, or has already requested it.               *)
(***************************************************************************)
C7_ReplyOnlyAfterFetchAndRead ==
    /\ \A j \in 1..Len(sent) :
          /\ sent[j].attempt \in 1..Len(attempts)
          /\ attempts[sent[j].attempt].fetch = "ok"
          /\ attempts[sent[j].attempt].read = "ok"
    /\ \A k \in 1..Len(attempts) :
          (attempts[k].fetch # "ok" \/ attempts[k].read # "ok") => SentFor(k) = { }
    /\ \A k \in 1..Len(attempts) :
          (attempts[k].fetch = "err" \/ attempts[k].read = "err") =>
              \/ pc = "loop" /\ i = attempts[k].index + 1
              \/ pc = "done" /\ attempts[k].index = Len(Unwrap(urls))
              \/ \E k2 \in 1..Len(attempts) :
                    attempts[k2].index = attempts[k].index + 1

\* The fetch of the first url failed, the body read of the second one failed,
\* and the third got its reply.
C7_Witness ==
    /\ Len(attempts) = 3
    /\ attempts[1].fetch = "err"
    /\ attempts[2].fetch = "ok" /\ attempts[2].read = "err"
    /\ attempts[3].read = "ok"
    /\ Len(sent) = 1
    /\ sent[1].attempt = 3

(***************************************************************************)
(* C8.  Each url occurrence of a message has at most one fetch attempt and *)
(* at most one reply dispatch attempt, failed ones included, so the        *)
(* replies dispatched are never more than the urls.                        *)
(***************************************************************************)
C8_AtMostOnce ==
    /\ \A k1, k2 \in 1..Len(attempts) :
          attempts[k1].index = attempts[k2].index => k1 = k2
    /\ \A j1, j2 \in 1..Len(sent) :
          sent[j1].attempt = sent[j2].attempt => j1 = j2
    /\ urls # None =>
          /\ \A k \in 1..Len(attempts) : attempts[k].index \in 1..Len(Unwrap(urls))
          /\ Len(attempts) <= Len(Unwrap(urls))
          /\ Len(sent) <= Len(Unwrap(urls))
    /\ urls = None => attempts = << >> /\ sent = << >>

\* The handler returned after a failed fetch and a failed dispatch, neither
\* tried again.
C8_Witness ==
    /\ pc = "done"
    /\ urls # None
    /\ Len(Unwrap(urls)) = 2
    /\ Len(attempts) = 2
    /\ attempts[1].fetch = "err"
    /\ Len(sent) = 1
    /\ sent[1].attempt = 2
    /\ send_result = "err"

(***************************************************************************)
(* C9.  No url that names a loopback target is ever fetched: it is dropped *)
(* by get_urls_from_message; the other urls of the same message are still  *)
(* returned, and they have been fetched when the handler has ended.        *)
(***************************************************************************)
C9_LoopbackDroppedOthersFetched ==
    /\ \A k \in 1..Len(attempts) : ~NamesLoopback(Text(attempts[k].url))
    /\ urls # None => Unwrap(urls) = Others
    /\ (Finished /\ Eligible /\ Matches # Others) =>
          \A n \in 1..Len(Others) :
              \E k \in 1..Len(attempts) : attempts[k].url = Others[n]

(***************************************************************************)
(* C10.  The fetch attempts made for a message are, when the handler has   *)
(* ended, exactly the non-filtered matches of the body in order of         *)
(* appearance, a url that appears twice being fetched twice.               *)
(***************************************************************************)
C10_FetchSequence ==
    (Finished /\ Eligible) => Fetched = Others

(***************************************************************************)
(* C11.  parse_metadata follows the decision table on title element and    *)
(* description meta element: for every page read, it returns None exactly  *)
(* when the page has neither; otherwise it returns an Embed, and the reply *)
(* built from it carries the title text ("" when there is no title) and    *)
(* the content value of the meta element ("" when there is no element).    *)
(* This fails: a description element without a content attribute makes     *)
(* parse_metadata panic (C5).                                              *)
(***************************************************************************)
C11_DecisionTable ==
    \A k \in 1..Len(attempts) :
        attempts[k].read = "ok" =>
            LET page == Unwrap(attempts[k].page)
                neither == page.title = None /\ page.desc = None
            IN  /\ attempts[k].parse = "none" <=> neither
                /\ ~neither =>
                      /\ attempts[k].parse = "some"
                      /\ \A j \in SentFor(k) :
                            /\ sent[j].reply.body =
                                   (IF page.title = None THEN "" ELSE Unwrap(page.title))
                            /\ sent[j].reply.formatted[2] = sent[j].reply.body
                            /\ page.desc = None =>
                                   sent[j].reply.formatted[4] = ""
                            /\ (page.desc # None /\ Unwrap(page.desc) # None) =>
                                   sent[j].reply.formatted[4] =
                                       Unwrap(Unwrap(page.desc))

(***************************************************************************)
(* C12.  A message whose content is not plain text causes no URL           *)
(* extraction, no fetch and no reply.                                      *)
(***************************************************************************)
C12_NonTextIgnored ==
    event.msgtype # "Text" => Untouched

\* An image message from another user, not a reply, in a joined room, whose
\* body holds a URL, has been handled to the end.
C12_Witness ==
    /\ pc = "done"
    /\ room.kind = "Joined"
    /\ event.sender # BotUser
    /\ event.relates_to = "None"
    /\ event.msgtype = "Image"
    /\ Others # << >>

\* The request of attempt k, or the read of its body, has not returned.
FetchInFlight(k) ==
    \/ attempts[k].fetch = "pending"
    \/ attempts[k].fetch = "ok" /\ attempts[k].read = "none"

\* The round trip of attempt k is over: the fetch failed, or the read
\* failed, or the page was read and parsed and the reply for it was
\* dispatched and room.send returned.
RoundTripOver(k) ==
    \/ attempts[k].fetch = "err"
    \/ attempts[k].read = "err"
    \/ /\ attempts[k].read = "ok"
       /\ SentFor(k) # {}
       /\ sent[Len(sent)].attempt = k => send_result \in { "ok", "err" }

\* The number of requests, body reads and dispatches in flight.
InFlight ==
    Cardinality({ k \in 1..Len(attempts) : FetchInFlight(k) })
        + (IF send_result = "pending" THEN 1 ELSE 0)

(***************************************************************************)
(* C15.  The per-URL steps of one invocation run one after the other: at   *)
(* most one fetch or dispatch is in flight at any time, and when the fetch *)
(* for a URL has been started, the round trip of every URL before it is    *)
(* over.                                                                   *)
(***************************************************************************)
C15_Sequential ==
    /\ InFlight <= 1
    /\ \A k \in 1..(Len(attempts) - 1) : RoundTripOver(k)

\* The fetch of the second URL is in flight after the reply for the first
\* one was dispatched and room.send returned.
C15_Witness ==
    /\ pc = "fetching"
    /\ Len(attempts) = 2
    /\ attempts[1].read = "ok"
    /\ SentFor(1) # {}
    /\ send_result = "ok"

(***************************************************************************)
(* C17.  Every invocation terminates once all candidate URLs have been     *)
(* processed, provided each fetch, body read and dispatch returns: an      *)
(* invocation that has ended has returned, and when extraction ran, the    *)
(* loop has made one iteration per candidate URL.  This fails: an          *)
(* invocation that panics in parse_metadata (C5) ends without returning    *)
(* and leaves the later URLs out.                                          *)
(***************************************************************************)
C17_EndsAfterAllUrls ==
    Finished =>
        /\ pc = "done"
        /\ urls # None =>
              /\ i = Len(Unwrap(urls)) + 1
              /\ Len(attempts) = Len(Unwrap(urls))

\* The calls whose failure run answers with a panic, by its documentation.
StartupSteps == { "create_client", "login", "sync_once" }

(***************************************************************************)
(* C13.  run panics only when client construction, login or the initial    *)
(* sync fails: no failure in the cleanup of old devices, in the handling   *)
(* of stale invitations (accept, join or reject) or in message handling    *)
(* panics.  This fails: a failed accept_invitation panics.                 *)
(***************************************************************************)
C13_PanicsOnlyAtStartup ==
    /\ run_pc = "panicked" => failed_step \in StartupSteps
    /\ pc # "panicked"

\* The devices named in the list ds.
Listed(ds) == { ds[j] : j \in 1..Len(ds) }

(***************************************************************************)
(* C14.  The current device is never in the list passed to a delete        *)
(* request, the first one or the retry with the password, and every other  *)
(* device of the account is in it.                                         *)
(***************************************************************************)
C14_CurrentDevicePreserved ==
    \A k \in 1..Len(delete_requests) :
        /\ current_device_id \notin Listed(delete_requests[k].devices)
        /\ Listed(account_devices) \ { current_device_id }
              \subseteq Listed(delete_requests[k].devices)

\* Both requests were made for an account with two old devices, the current
\* device between them in the answer of client.devices().
C14_Witness ==
    /\ Len(delete_requests) = 2
    /\ delete_requests[2].auth = "Password"
    /\ delete_requests[2].result = "ok"
    /\ Len(account_devices) = 3
    /\ account_devices[2] = current_device_id

\* Some delete request succeeded.
DeleteSucceeded ==
    \E k \in 1..Len(delete_requests) : delete_requests[k].result = "ok"

(***************************************************************************)
(* C20.  delete_old_encryption_devices returns Ok(()) only if a delete     *)
(* request succeeded, and returns an error whenever the first request      *)
(* failed and no successful retry followed.  This fails: a first request   *)
(* that fails without a UIAA response is followed by Ok(()).               *)
(***************************************************************************)
C20_FailureReported ==
    /\ cleanup_result = "ok" => DeleteSucceeded
    /\ ( /\ cleanup_result # "none"
         /\ delete_requests # << >>
         /\ delete_requests[1].result \in { "uiaa", "err" }
         /\ ~DeleteSucceeded ) => cleanup_result = "err"

(***************************************************************************)
(* C18.  handle_message_events of main.rs never processes a message that   *)
(* is itself a reply: such a message causes no fetch and no reply.  This   *)
(* fails: main.rs does not look at the relation of the message.            *)
(***************************************************************************)
C18_MainReplyIgnored ==
    is_reply(event) => attempts = << >> /\ sent = << >>

(***************************************************************************)
(* C19.  In handle_message_events of main.rs every candidate URL of an     *)
(* eligible message is processed: when the handler has ended, each URL of  *)
(* the body that is no loopback target has had its fetch attempt, in       *)
(* order, whatever became of the URLs before it.  This fails: only the     *)
(* first match is looked at.                                               *)
(***************************************************************************)
C19_MainEveryUrlFetched ==
    (pc = "done" /\ Eligible) =>
        /\ Len(attempts) = Len(Others)
        /\ \A k \in 1..Len(Others) : attempts[k].url = Others[k]

\* Every reply the invocation with state inv dispatched was produced by one
\* of its own attempts, for a URL of its own message, and is addressed to
\* the room and the event of that message.
OwnReplies(inv) ==
    \A j \in 1..Len(inv.sent) :
        /\ inv.sent[j].attempt \in 1..Len(inv.attempts)
        /\ \E k \in 1..Len(OtherTable[inv.event.body]) :
              inv.attempts[inv.sent[j].attempt].url = OtherTable[inv.event.body][k]
        /\ inv.sent[j].reply.room_id = inv.room.room_id
        /\ inv.sent[j].reply.in_reply_to = inv.event.event_id

\* The running invocation can take a step (Extract has no condition but
\* its position).
CanStep == pc = "extract" \/ ENABLED Next

(***************************************************************************)
(* C16.  Interleaved invocations for different message events share no     *)
(* mutable state: every reply dispatched is addressed to the room and the  *)
(* event of the message whose URL produced it; and an invocation suspended *)
(* in a fetch or a dispatch does not block the other one: whatever the     *)
(* suspended invocation awaits, the running one can take its next step     *)
(* until it has ended.                                                     *)
(***************************************************************************)
C16_NoSharedState ==
    /\ OwnReplies(Saved)
    /\ suspended # None => OwnReplies(Unwrap(suspended))
    /\ ~Finished => CanStep

\* One invocation is suspended in its fetch, after it dispatched a reply
\* for its first URL, and the other one has run to completion with a reply
\* of its own.
C16_Witness ==
    /\ suspended # None
    /\ Unwrap(suspended).pc = "fetching"
    /\ Len(Unwrap(suspended).sent) = 1
    /\ pc = "done"
    /\ Len(sent) = 1
    /\ send_result = "ok"

\* run is inside the loop of reject_stale_invites.
InInviteLoop == run_pc \in { "invites", "accepting", "joining", "rejecting" }

\* run is past the loop of reject_stale_invites, or has ended in it.
LeftInviteLoop == cleanup_result = "ok" /\ ~InInviteLoop

(***************************************************************************)
(* C21.  reject_stale_invites decides every pending invitation, once, by   *)
(* the allow-list rule: the invitation being accepted or joined is to a    *)
(* room that is no space, not direct and listed in config.room_ids, the    *)
(* one being rejected is to a room that is not; and when the loop has been *)
(* left no invitation is still undecided, whatever join or reject failed.  *)
(* This fails: a failed accept panics (C13) and leaves the invitations     *)
(* after it undecided, and the room itself without a join attempt.         *)
(***************************************************************************)
C21_EveryInviteDecided ==
    /\ run_pc \in { "accepting", "joining" } => is_wanted(Head(invited_rooms))
    /\ run_pc = "rejecting" => ~is_wanted(Head(invited_rooms))
    /\ LeftInviteLoop => invited_rooms = << >>

\* embed_handler has been called.
HandlerCalled == pc # "idle"

(***************************************************************************)
(* C22.  In run the embed handler is registered and the sync loop started  *)
(* only after login, initial sync, cleanup of old devices and handling of  *)
(* stale invitations have completed, in that order: when the handler has   *)
(* been called, run is in (or has returned from) client.sync, none of the  *)
(* earlier steps failed, the old devices were deleted and no invitation is *)
(* pending; and when one of those steps failed, the handler has not been   *)
(* called and nothing was fetched or sent.  This fails: a delete request   *)
(* that failed without a UIAA response counts as a completed cleanup       *)
(* (C20), and the handler is registered after it.                          *)
(***************************************************************************)
C22_HandlerAfterStartup ==
    /\ HandlerCalled =>
          /\ run_pc \in { "syncing", "returned" }
          /\ failed_step \in { "", "sync" }
          /\ cleanup_result = "ok"
          /\ DeleteSucceeded
          /\ invited_rooms = << >>
    /\ failed_step \notin { "", "sync" } => ~HandlerCalled /\ Untouched

=============================================================================
